---- MODULE Spec2Model ----
(***************************************************************************)
(* regextractor: the line filter (filter_iter.rs), the extraction pipeline *)
(* (lib.rs), the table builder (datatable/builder.rs) and the data table   *)
(* (datatable/mod.rs, datatable/iter.rs).                                  *)
(*                                                                         *)
(* Text is modelled structurally.  A line is a sequence of words; a word   *)
(* [k |-> key, v |-> text] stands for the text  key=text .  A regex        *)
(* [k, g, bad] searches for the first word with key k (k = "" searches for *)
(* the first word and matches its text only), has g capture groups, and    *)
(* `bad` marks a pattern whose evaluation fails at run time (fancy_regex   *)
(* returns Err, e.g. on exceeding its backtrack limit).                    *)
(***************************************************************************)
EXTENDS Integers, Sequences, FiniteSets, TLC

VARIABLES
    pc,             \* position of the running entry point
    src,            \* the whole input stream, as the reader will deliver it
    lines,          \* FilterIter.lines: the part of the stream not yet read
    includes,       \* FilterIter.includes
    excludes,       \* FilterIter.excludes
    emitted,        \* every element FilterIter::next has returned so far
    output,         \* filter: the `output` vector
    first,          \* the vector returned by the first run of filter
    data_regex,     \* extract_data: data_regex
    base_data_name, \* extract_data / build: Option<&str>
    group,          \* extract_data: group
    builder,        \* DataTableBuilder.data (or NoBuilder)
    dt,             \* DataTable (or NoTable)
    result,         \* what the entry point returned (or NoResult)
    ret             \* the last call on the table: [op, arg, res]

vars == <<pc, src, lines, includes, excludes, emitted, output, first,
          data_regex, base_data_name, group, builder, dt, result, ret>>

-----------------------------------------------------------------------------
(* Bounds of the model *)

MaxLines == 3
MaxRgx == 2
MaxCols == 2
MaxRows == 2

-----------------------------------------------------------------------------
(* Option, Result *)

None == <<>>
Some(x) == <<x>>
IsSome(o) == o # <<>>
Unwrap(o) == o[1]

Ok(v) == [tag |-> "Ok", val |-> v]
Err(e) == [tag |-> "Err", val |-> e]
Panic == [tag |-> "Panic", val |-> "index out of bounds"]

(* The numeric type T: a number or NaN *)
Num(n) == [nan |-> FALSE, n |-> n]
NaN == [nan |-> TRUE, n |-> 0]
Zero == Num(0)
AddOne(x) == IF x.nan THEN NaN ELSE Num(x.n + 1)

-----------------------------------------------------------------------------
(* Regex evaluation and numeric parsing (external collaborators) *)

RECURSIVE FindWord(_, _)
FindWord(line, k) ==
    IF line = <<>> THEN None
    ELSE IF k = "" \/ Head(line).k = k THEN Some(Head(line))
    ELSE FindWord(Tail(line), k)

(* Regex::captures: Err, Ok(None) or Ok(Some(captures)); the captures are   *)
(* the texts of group 0 (the whole match) and, if the pattern has one, of   *)
(* group 1.  A text is [pre, txt]: pre # "" is a non-numeric prefix.        *)
captures(rgx, line) ==
    IF rgx.bad THEN Err("RuntimeError")
    ELSE LET w == FindWord(line, rgx.k) IN
         IF ~IsSome(w) THEN Ok(None)
         ELSE LET whole == [pre |-> rgx.k, txt |-> Unwrap(w).v]
                  grp == [pre |-> "", txt |-> Unwrap(w).v]
              IN Ok(Some(IF rgx.g >= 1 THEN <<whole, grp>> ELSE <<whole>>))

Digits == {"1", "2", "3"}
DigitValue(t) == CASE t = "1" -> 1 [] t = "2" -> 2 [] t = "3" -> 3

(* str::parse::<T> *)
parse(text) ==
    IF text.pre = "" /\ text.txt \in Digits
    THEN Ok(Num(DigitValue(text.txt)))
    ELSE Err("ParseFloatError")

-----------------------------------------------------------------------------
(* filter_iter.rs *)

RECURSIVE is_ignored(_, _)
is_ignored(line, ignores) ==
    IF ignores = <<>> THEN FALSE
    ELSE LET c == captures(Head(ignores), line) IN
         IF c.tag = "Ok" /\ IsSome(c.val) THEN TRUE
         ELSE is_ignored(line, Tail(ignores))

RECURSIVE IncludeLoop(_, _)
IncludeLoop(line, rgxs) ==
    IF rgxs = <<>> THEN FALSE
    ELSE LET c == captures(Head(rgxs), line) IN
         IF c.tag = "Ok" /\ IsSome(c.val) THEN TRUE
         ELSE IncludeLoop(line, Tail(rgxs))

\* is_included without its last line: an empty include list keeps nothing
is_included_no_default(line, incl) == IncludeLoop(line, incl)

is_included(line, incl) ==
    IF IncludeLoop(line, incl) THEN TRUE ELSE incl = <<>>

\* FilterIter::next ending the iteration at the first read error
RECURSIVE FilterIterNextStopAtError(_, _, _)
FilterIterNextStopAtError(ls, incl, excl) ==
    IF ls = <<>> THEN [item |-> None, rest |-> <<>>]
    ELSE LET next_line == Head(ls) IN
         IF next_line.tag = "Ok"
         THEN IF ~is_included(next_line.val, incl)
              THEN FilterIterNextStopAtError(Tail(ls), incl, excl)
              ELSE IF is_ignored(next_line.val, excl)
              THEN FilterIterNextStopAtError(Tail(ls), incl, excl)
              ELSE [item |-> Some(next_line), rest |-> Tail(ls)]
         ELSE [item |-> None, rest |-> <<>>]

\* FilterIter::next returning, after an excluded line, the element that
\* follows it without testing it
FilterIterNextUntested(ls, incl, excl) ==
    LET RECURSIVE Scan(_)
        Scan(rest) ==
            IF rest = <<>> THEN [item |-> None, rest |-> <<>>]
            ELSE LET next_line == Head(rest) IN
                 IF next_line.tag = "Ok"
                 THEN IF ~is_included(next_line.val, incl)
                      THEN Scan(Tail(rest))
                      ELSE IF is_ignored(next_line.val, excl)
                      THEN IF Tail(rest) = <<>>
                           THEN [item |-> None, rest |-> <<>>]
                           ELSE [item |-> Some(Head(Tail(rest))), rest |-> Tail(Tail(rest))]
                      ELSE [item |-> Some(next_line), rest |-> Tail(rest)]
                 ELSE [item |-> Some(next_line), rest |-> Tail(rest)]
    IN Scan(ls)

(* FilterIter::next: [item, rest]; item is None at the end of the stream,   *)
(* else Some(Ok(line)) or Some(Err(e)).                                     *)
RECURSIVE FilterIterNext(_, _, _)
FilterIterNext(ls, incl, excl) ==
    IF ls = <<>> THEN [item |-> None, rest |-> <<>>]
    ELSE LET next_line == Head(ls) IN
         IF next_line.tag = "Ok"
         THEN IF ~is_included(next_line.val, incl)
              THEN FilterIterNext(Tail(ls), incl, excl)
              ELSE IF is_ignored(next_line.val, excl)
              THEN FilterIterNext(Tail(ls), incl, excl)
              ELSE [item |-> Some(next_line), rest |-> Tail(ls)]
         ELSE [item |-> Some(next_line), rest |-> Tail(ls)]

(* lib.rs: the closure filter hands to try_for_each *)
FilterClosure(out, filtered_line) ==
    IF filtered_line.tag = "Ok" THEN Append(out, filtered_line.val) ELSE out

(* lib.rs filter: try_for_each over the iterator, then Ok(output) *)
RECURSIVE FilterTryForEach(_, _, _, _)
FilterTryForEach(ls, incl, excl, out) ==
    LET r == FilterIterNext(ls, incl, excl) IN
    IF ~IsSome(r.item) THEN Ok(out)
    ELSE FilterTryForEach(r.rest, incl, excl, FilterClosure(out, Unwrap(r.item)))

filter(reader, included_lines, excluded_lines) ==
    FilterTryForEach(reader, included_lines, excluded_lines, <<>>)

-----------------------------------------------------------------------------
(* datatable/mod.rs.  Vectors are indexed from 0, as in the source; an      *)
(* index past the end of a vector is a panic.                               *)

InRange(v, i) == i >= 0 /\ i < Len(v)
At(v, i) == v[i + 1]

\* position(|n| n == x): the first index holding x
Position(v, x) ==
    IF \E i \in 0..(Len(v) - 1) : At(v, i) = x
    THEN Some(CHOOSE i \in 0..(Len(v) - 1) :
                 /\ At(v, i) = x
                 /\ \A j \in 0..(i - 1) : At(v, j) # x)
    ELSE None

DefaultNames(columns) == [f \in 1..columns |-> ToString(f - 1)]

\* DataTable::new
new(columns, names, base_data_index) ==
    [value_columns |-> columns,
     value_rows |-> 0,
     base_data_index |-> base_data_index,
     value_names |-> IF IsSome(names) THEN Unwrap(names) ELSE DefaultNames(columns),
     value_data |-> [c \in 1..columns |-> <<>>],
     base_data |-> <<>>]

\* DataTable::new_with_base_data_index
new_with_base_data_index(columns, names, base_data_index) ==
    IF base_data_index < columns
    THEN Ok(new(columns, names, Some(base_data_index)))
    ELSE Err("InvalidCBaseDataIndex")

\* DataTable::new_with_base_data_name
new_with_base_data_name(columns, names, base_name) ==
    LET index == Position(names, base_name) IN
    IF ~IsSome(index) THEN Err("InvalidCBaseDataName")
    ELSE new_with_base_data_index(columns, Some(names), Unwrap(index))

\* DataTable::get_base_data: Ok(vector), or Panic when the index is out of bounds
get_base_data(t) ==
    IF IsSome(t.base_data_index)
    THEN IF InRange(t.value_data, Unwrap(t.base_data_index))
         THEN Ok(At(t.value_data, Unwrap(t.base_data_index)))
         ELSE Panic
    ELSE Ok(t.base_data)

\* the zip of value_data with data: column c takes data[c] while both last
ZipPush(value_data, data) ==
    [c \in 1..Len(value_data) |->
        IF c <= Len(data) THEN Append(value_data[c], data[c]) ELSE value_data[c]]

\* add_row without the check of the vector's length
add_row_unchecked(t, data) ==
    LET pushed == [t EXCEPT !.value_data = ZipPush(t.value_data, data)] IN
    IF IsSome(t.base_data_index)
    THEN IF InRange(data, Unwrap(t.base_data_index))
         THEN [dt |-> [pushed EXCEPT
                          !.base_data = Append(@, At(data, Unwrap(t.base_data_index))),
                          !.value_rows = @ + 1],
               res |-> Ok("unit")]
         ELSE [dt |-> pushed, res |-> Panic]
    ELSE IF t.base_data # <<>>
    THEN [dt |-> [pushed EXCEPT
                     !.base_data = Append(@, AddOne(At(@, Len(@) - 1))),
                     !.value_rows = @ + 1],
          res |-> Ok("unit")]
    ELSE [dt |-> [pushed EXCEPT
                     !.base_data = Append(@, Zero),
                     !.value_rows = @ + 1],
          res |-> Ok("unit")]

\* add_row taking the base value from the first column, whatever the base
\* index, and starting the generated base at one
add_row_wrong_base(t, data) ==
    IF Len(data) # t.value_columns
    THEN [dt |-> t, res |-> Err("InvalidColumnCount")]
    ELSE LET pushed == [t EXCEPT !.value_data = ZipPush(t.value_data, data)] IN
         IF IsSome(t.base_data_index)
         THEN IF InRange(data, 0)
              THEN [dt |-> [pushed EXCEPT
                               !.base_data = Append(@, At(data, 0)),
                               !.value_rows = @ + 1],
                    res |-> Ok("unit")]
              ELSE [dt |-> pushed, res |-> Panic]
         ELSE IF t.base_data # <<>>
         THEN [dt |-> [pushed EXCEPT
                          !.base_data = Append(@, AddOne(At(@, Len(@) - 1))),
                          !.value_rows = @ + 1],
               res |-> Ok("unit")]
         ELSE [dt |-> [pushed EXCEPT
                          !.base_data = Append(@, AddOne(Zero)),
                          !.value_rows = @ + 1],
               res |-> Ok("unit")]

\* DataTable::add_row: [dt, res]; dt is the table as the call leaves it
add_row(t, data) ==
    IF Len(data) # t.value_columns
    THEN [dt |-> t, res |-> Err("InvalidColumnCount")]
    ELSE LET pushed == [t EXCEPT !.value_data = ZipPush(t.value_data, data)] IN
         IF IsSome(t.base_data_index)
         THEN IF InRange(data, Unwrap(t.base_data_index))
              THEN [dt |-> [pushed EXCEPT
                               !.base_data = Append(@, At(data, Unwrap(t.base_data_index))),
                               !.value_rows = @ + 1],
                    res |-> Ok("unit")]
              ELSE [dt |-> pushed, res |-> Panic]
         ELSE IF t.base_data # <<>>
         THEN [dt |-> [pushed EXCEPT
                          !.base_data = Append(@, AddOne(At(@, Len(@) - 1))),
                          !.value_rows = @ + 1],
               res |-> Ok("unit")]
         ELSE [dt |-> [pushed EXCEPT
                          !.base_data = Append(@, Zero),
                          !.value_rows = @ + 1],
               res |-> Ok("unit")]

\* DataTable::check_column_index
check_column_index(t, index) ==
    LET b == get_base_data(t) IN
    IF b.tag = "Panic" THEN Panic
    ELSE IF index >= Len(b.val) THEN Err("InvalidColumnIndex")
    ELSE Ok("unit")

\* DataTable::get_name
get_name(t, index) ==
    LET chk == check_column_index(t, index) IN
    IF chk.tag # "Ok" THEN chk
    ELSE IF InRange(t.value_names, index) THEN Ok(At(t.value_names, index))
    ELSE Panic

\* DataTable::get_col (the iterator, collected)
get_col(t, index) ==
    LET chk == check_column_index(t, index) IN
    IF chk.tag # "Ok" THEN chk
    ELSE IF InRange(t.value_data, index) THEN Ok(At(t.value_data, index))
    ELSE Panic

\* DataTable::get_col_by_name
get_col_by_name(t, name) ==
    LET index == Position(t.value_names, name) IN
    IF ~IsSome(index) THEN Err("InvalidColumnName")
    ELSE get_col(t, Unwrap(index))

\* datatable/iter.rs ZipIter::new and the pairs ZipIter::next yields, collected
ZipIter(fst, snd) ==
    IF Len(fst) # Len(snd) THEN Err("InconsistentContainerSize")
    ELSE Ok([i \in 1..Len(fst) |-> <<fst[i], snd[i]>>])

\* DataTable::get_col_with_base
get_col_with_base(t, index) ==
    LET chk == check_column_index(t, index) IN
    IF chk.tag # "Ok" THEN chk
    ELSE IF InRange(t.value_data, index)
    THEN ZipIter(t.base_data, At(t.value_data, index))
    ELSE Panic

\* DataTable::get_col_by_name_with_base
get_col_by_name_with_base(t, name) ==
    LET index == Position(t.value_names, name) IN
    IF ~IsSome(index) THEN Err("InvalidColumnName")
    ELSE get_col_with_base(t, Unwrap(index))

\* DataTable::get_row (the iterator, collected): the base value, then one
\* value of every column
get_row(t, index) ==
    LET chk == check_column_index(t, index) IN
    IF chk.tag # "Ok" THEN chk
    ELSE IF \E c \in 1..Len(t.value_data) : ~InRange(t.value_data[c], index)
    THEN Panic
    ELSE Ok(<<At(get_base_data(t).val, index)>>
            \o [c \in 1..Len(t.value_data) |-> At(t.value_data[c], index)])

\* DataTable::get_names
get_names(t) == t.value_names

-----------------------------------------------------------------------------
(* datatable/builder.rs.  `data` is the HashMap: a function from the names  *)
(* to their buffers.  The order in which a HashMap is iterated is not       *)
(* specified; `order` is that order, the same for keys() and values() of    *)
(* one unmodified map.                                                      *)

EmptyMap == [n \in {} |-> <<>>]
Insert(data, name, v) == [n \in DOMAIN data \cup {name} |-> IF n = name THEN v ELSE data[n]]

RECURSIVE BuilderNewLoop(_, _)
BuilderNewLoop(data, names) ==
    IF names = <<>> THEN Ok([data |-> data])
    ELSE IF Head(names) \in DOMAIN data THEN Err("DuplicateName")
    ELSE BuilderNewLoop(Insert(data, Head(names), <<>>), Tail(names))

\* DataTableBuilder::new
builder_new(names) == BuilderNewLoop(EmptyMap, names)

\* DataTableBuilder::add_value: [builder, res]
add_value(b, name, value) ==
    IF name \in DOMAIN b.data
    THEN [builder |-> [data |-> [b.data EXCEPT ![name] = Append(@, value)]],
          res |-> Ok("unit")]
    ELSE [builder |-> b, res |-> Err("InvalidColumnName")]

Orders(b) ==
    {o \in [1..Cardinality(DOMAIN b.data) -> DOMAIN b.data] :
        \A i, j \in DOMAIN o : i # j => o[i] # o[j]}

SeqMax(v) == CHOOSE x \in {v[i] : i \in DOMAIN v} : \A i \in DOMAIN v : v[i] <= x
SeqMin(v) == CHOOSE x \in {v[i] : i \in DOMAIN v} : \A i \in DOMAIN v : x <= v[i]

\* get_len without the comparison of the lengths
get_len_first(b, order) ==
    LET lens == [c \in DOMAIN order |-> Len(b.data[order[c]])] IN
    IF lens = <<>> THEN Err("InconsistentBuilderData") ELSE Ok(Head(lens))

\* get_len taking empty buffers for inconsistent ones
get_len_nonzero(b, order) ==
    LET lens == [c \in DOMAIN order |-> Len(b.data[order[c]])] IN
    IF lens # <<>> /\ SeqMax(lens) # SeqMin(lens) THEN Err("InconsistentBuilderData")
    ELSE IF lens = <<>> \/ Head(lens) = 0 THEN Err("InconsistentBuilderData")
    ELSE Ok(Head(lens))

\* DataTableBuilder::get_len
get_len(b, order) ==
    LET lens == [c \in DOMAIN order |-> Len(b.data[order[c]])] IN
    IF lens # <<>> /\ SeqMax(lens) # SeqMin(lens) THEN Err("InconsistentBuilderData")
    ELSE IF lens = <<>> THEN Err("InconsistentBuilderData")
    ELSE Ok(Head(lens))

\* DataTableBuilder::get_row
builder_get_row(b, order, index) ==
    IF \E c \in DOMAIN order : ~InRange(b.data[order[c]], index)
    THEN Err("InvalidColumnIndex")
    ELSE Ok([c \in DOMAIN order |-> At(b.data[order[c]], index)])

\* build: the loop over 0..len, add_row(get_row(i)?) with its error ignored
RECURSIVE BuildRows(_, _, _, _, _)
BuildRows(b, order, t, i, len) ==
    IF i >= len THEN Ok(t)
    ELSE LET row == builder_get_row(b, order, i) IN
         IF row.tag # "Ok" THEN row
         ELSE LET r == add_row(t, row.val) IN
              IF r.res.tag = "Panic" THEN Panic
              ELSE BuildRows(b, order, r.dt, i + 1, len)

\* DataTableBuilder::build
build(b, base_name, order) ==
    LET len == get_len(b, order) IN
    IF len.tag # "Ok" THEN len
    ELSE LET names == order
             made == IF IsSome(base_name)
                     THEN new_with_base_data_name(Len(order), names, Unwrap(base_name))
                     ELSE Ok(new(Len(order), Some(names), None))
         IN IF made.tag # "Ok" THEN made
            ELSE BuildRows(b, order, made.val, 0, len.val)

-----------------------------------------------------------------------------
(* lib.rs: field extraction and extract_data *)

\* get_number parsing the whole match whatever `group` says
get_number_whole_match(line, rgx, grp) ==
    LET match_index == 0
        c == captures(rgx, line)
    IN IF c.tag = "Ok" /\ IsSome(c.val)
       THEN LET r == Unwrap(c.val) IN
            IF InRange(r, match_index)
            THEN LET n == parse(At(r, match_index)) IN
                 IF n.tag = "Ok" THEN n.val ELSE NaN
            ELSE NaN
       ELSE NaN

\* get_number
get_number(line, rgx, grp) ==
    LET match_index == IF grp THEN 1 ELSE 0
        c == captures(rgx, line)
    IN IF c.tag = "Ok" /\ IsSome(c.val)
       THEN LET r == Unwrap(c.val) IN
            IF InRange(r, match_index)
            THEN LET n == parse(At(r, match_index)) IN
                 IF n.tag = "Ok" THEN n.val ELSE NaN
            ELSE NaN
       ELSE NaN

\* get_numbers
get_numbers(line, rgxs, grp) ==
    [i \in DOMAIN rgxs |-> <<rgxs[i].name, get_number(line, rgxs[i].regex, grp)>>]

\* the loop over (name, value): builder.add_value(name, value)?
RECURSIVE AddValues(_, _)
AddValues(b, pairs) ==
    IF pairs = <<>> THEN [builder |-> b, res |-> Ok("unit")]
    ELSE LET r == add_value(b, Head(pairs)[1], Head(pairs)[2]) IN
         IF r.res.tag # "Ok" THEN r
         ELSE AddValues(r.builder, Tail(pairs))

\* the closure extract_data hands to try_for_each
ExtractClosure(b, filtered_line, rgxs, grp) ==
    IF filtered_line.tag = "Ok"
    THEN AddValues(b, get_numbers(filtered_line.val, rgxs, grp))
    ELSE [builder |-> b, res |-> Ok("unit")]

\* From<DataTableError> for ExtractionError, applied by `?`
FromTableError(r) == IF r.tag = "Err" THEN Err(<<"DataTable", r.val>>) ELSE r

RegexNames(rgxs) == [i \in DOMAIN rgxs |-> rgxs[i].name]

-----------------------------------------------------------------------------
(* Inputs *)

SeqsUpTo(S, n) == UNION {[1..m -> S] : m \in 0..n}

X1 == [k |-> "x", v |-> "1"]
Y2 == [k |-> "y", v |-> "2"]
X3 == [k |-> "x", v |-> "3"]
YZ == [k |-> "y", v |-> "z"]

\* "x=1 y=2", "x=3", "y=z"
LinePool == {<<X1, Y2>>, <<X3>>, <<YZ>>}
ReadResults == {Ok(l) : l \in LinePool} \cup {Err("InvalidData")}

\* x=(\w+), y=(\w+), and a pattern whose evaluation fails
RgxX == [k |-> "x", g |-> 1, bad |-> FALSE]
RgxY == [k |-> "y", g |-> 1, bad |-> FALSE]
RgxBad == [k |-> "x", g |-> 1, bad |-> TRUE]
IncludePool == {RgxX, RgxY, RgxBad}
ExcludePool == {RgxY, RgxBad}

\* named data regexes; the third repeats the name x and has no capture group
NamedX == [name |-> "x", regex |-> RgxX]
NamedY == [name |-> "y", regex |-> RgxY]
NamedX0 == [name |-> "x", regex |-> [k |-> "", g |-> 0, bad |-> FALSE]]
NamedRgxPool == {NamedX, NamedY, NamedX0}

\* the streams and the filters the extraction runs are tried with
ExtractReadResults == {Ok(<<X1, Y2>>), Ok(<<X3>>), Err("InvalidData")}
ExtractFilters == {[inc |-> <<>>, exc |-> <<>>], [inc |-> <<RgxX>>, exc |-> <<RgxY>>]}
DeclaredNames == {r.name : r \in NamedRgxPool}

NamePool == {"x", "y", "z"}
UnknownName == "t"
ValPool == {Num(1), NaN}

NoBuilder == [state |-> "none"]
NoTable == [state |-> "none"]
NoResult == [tag |-> "none", val |-> "none"]
NoRet == [op |-> "none"]

-----------------------------------------------------------------------------
(* filter (lib.rs) *)

InitFilter ==
    /\ pc = "filter"
    /\ src \in SeqsUpTo(ReadResults, MaxLines)
    /\ lines = src
    /\ includes \in SeqsUpTo(IncludePool, MaxRgx)
    /\ excludes \in SeqsUpTo(ExcludePool, MaxRgx)
    /\ emitted = <<>>
    /\ output = <<>>
    /\ first = None
    /\ data_regex = <<>>
    /\ base_data_name = None
    /\ group = FALSE
    /\ builder = NoBuilder
    /\ dt = NoTable
    /\ result = NoResult
    /\ ret = NoRet

\* one round of try_for_each: FilterIter::next yields an element, the closure takes it
FilterForEach ==
    /\ pc \in {"filter", "refilter"}
    /\ LET r == FilterIterNext(lines, includes, excludes) IN
       /\ IsSome(r.item)
       /\ lines' = r.rest
       /\ emitted' = Append(emitted, Unwrap(r.item))
       /\ output' = FilterClosure(output, Unwrap(r.item))
    /\ UNCHANGED <<pc, src, includes, excludes, first, data_regex,
                   base_data_name, group, builder, dt, result, ret>>

\* FilterIter::next yields None: try_for_each ends and filter returns Ok(output)
FilterReturn ==
    /\ pc \in {"filter", "refilter"}
    /\ LET r == FilterIterNext(lines, includes, excludes) IN
       /\ ~IsSome(r.item)
       /\ lines' = r.rest
    /\ result' = Ok(output)
    /\ pc' = IF pc = "filter" THEN "filtered" ELSE "refiltered"
    /\ UNCHANGED <<src, includes, excludes, emitted, output, first, data_regex,
                   base_data_name, group, builder, dt, ret>>

\* the caller runs filter again, with the same regexes, over the lines it returned
Refilter ==
    /\ pc = "filtered"
    /\ first' = Some([input |-> src, out |-> result.val])
    /\ src' = [i \in 1..Len(result.val) |-> Ok(result.val[i])]
    /\ lines' = src'
    /\ emitted' = <<>>
    /\ output' = <<>>
    /\ pc' = "refilter"
    /\ result' = NoResult
    /\ UNCHANGED <<includes, excludes, data_regex, base_data_name, group,
                   builder, dt, ret>>

NextFilter == FilterForEach \/ FilterReturn \/ Refilter

-----------------------------------------------------------------------------
(* extract_data (lib.rs), and the caller reading the table it returns *)

InitExtract ==
    /\ pc = "extract"
    /\ src \in SeqsUpTo(ExtractReadResults, MaxLines)
    /\ lines = src
    /\ \E f \in ExtractFilters : includes = f.inc /\ excludes = f.exc
    /\ emitted = <<>>
    /\ output = <<>>
    /\ first = None
    /\ data_regex \in SeqsUpTo(NamedRgxPool, MaxCols)
    /\ base_data_name \in {None, Some("x"), Some(UnknownName)}
    /\ group \in BOOLEAN
    /\ builder = NoBuilder
    /\ dt = NoTable
    /\ result = NoResult
    /\ ret = NoRet

\* DataTableBuilder::new(names)?
ExtractNew ==
    /\ pc = "extract"
    /\ LET r == builder_new(RegexNames(data_regex)) IN
       IF r.tag = "Ok"
       THEN /\ builder' = r.val
            /\ pc' = "extracting"
            /\ UNCHANGED result
       ELSE /\ result' = FromTableError(r)
            /\ pc' = "extracted"
            /\ UNCHANGED builder
    /\ UNCHANGED <<src, lines, includes, excludes, emitted, output, first,
                   data_regex, base_data_name, group, dt, ret>>

\* one round of try_for_each: FilterIter::next yields an element, the closure
\* pushes the numbers of the line into the builder
ExtractForEach ==
    /\ pc = "extracting"
    /\ LET r == FilterIterNext(lines, includes, excludes) IN
       /\ IsSome(r.item)
       /\ lines' = r.rest
       /\ emitted' = Append(emitted, Unwrap(r.item))
       /\ LET c == ExtractClosure(builder, Unwrap(r.item), data_regex, group) IN
          /\ builder' = c.builder
          /\ IF c.res.tag = "Ok"
             THEN UNCHANGED <<pc, result>>
             ELSE /\ result' = FromTableError(c.res)
                  /\ pc' = "extracted"
    /\ UNCHANGED <<src, includes, excludes, output, first, data_regex,
                   base_data_name, group, dt, ret>>

\* FilterIter::next yields None: builder.build(base_data_name)?
ExtractBuild ==
    /\ pc = "extracting"
    /\ LET r == FilterIterNext(lines, includes, excludes) IN
       /\ ~IsSome(r.item)
       /\ lines' = r.rest
    /\ \E order \in Orders(builder) :
          LET b == build(builder, base_data_name, order) IN
          /\ result' = FromTableError(b)
          /\ dt' = IF b.tag = "Ok" THEN b.val ELSE NoTable
    /\ pc' = "extracted"
    /\ UNCHANGED <<src, includes, excludes, emitted, output, first, data_regex,
                   base_data_name, group, builder, ret>>

\* the caller reads a column of the returned table by name
ExtractedGetColByName ==
    /\ pc = "extracted"
    /\ result.tag = "Ok"
    /\ \E n \in DeclaredNames \cup {UnknownName} :
          ret' = [op |-> "get_col_by_name", arg |-> n, res |-> get_col_by_name(dt, n)]
    /\ UNCHANGED <<pc, src, lines, includes, excludes, emitted, output, first,
                   data_regex, base_data_name, group, builder, dt, result>>

NextExtract ==
    \/ ExtractNew
    \/ ExtractForEach
    \/ ExtractBuild
    \/ ExtractedGetColByName

\* the two entry points of the library
InitPipeline == InitFilter \/ InitExtract
NextPipeline == NextFilter \/ NextExtract
SpecPipeline == InitPipeline /\ [][NextPipeline]_vars

-----------------------------------------------------------------------------
(* The builder on its own: new, any sequence of add_value, build, and the   *)
(* caller reading the built table by name.                                  *)

Idle ==
    /\ src = <<>>
    /\ lines = <<>>
    /\ includes = <<>>
    /\ excludes = <<>>
    /\ emitted = <<>>
    /\ output = <<>>
    /\ first = None
    /\ data_regex = <<>>
    /\ group = FALSE

InitBuilder ==
    /\ pc = "builder_new"
    /\ Idle
    /\ base_data_name = None
    /\ builder = NoBuilder
    /\ dt = NoTable
    /\ result = NoResult
    /\ ret = NoRet

BuilderNew ==
    /\ pc = "builder_new"
    /\ \E names \in SeqsUpTo(NamePool, MaxCols) :
          LET r == builder_new(names) IN
          IF r.tag = "Ok"
          THEN /\ builder' = r.val
               /\ pc' = "building"
               /\ UNCHANGED result
          ELSE /\ result' = r
               /\ pc' = "builder_failed"
               /\ UNCHANGED builder
    /\ UNCHANGED <<src, lines, includes, excludes, emitted, output, first,
                   data_regex, base_data_name, group, dt, ret>>

BuilderAddValue ==
    /\ pc = "building"
    /\ \E name \in NamePool \cup {UnknownName}, value \in ValPool :
          /\ name \in DOMAIN builder.data => Len(builder.data[name]) < MaxRows
          /\ LET r == add_value(builder, name, value) IN
             /\ builder' = r.builder
             /\ ret' = [op |-> "add_value", arg |-> name, res |-> r.res]
    /\ UNCHANGED <<pc, src, lines, includes, excludes, emitted, output, first,
                   data_regex, base_data_name, group, dt, result>>

BuilderBuild ==
    /\ pc = "building"
    /\ \E base \in {None} \cup {Some(n) : n \in NamePool \cup {UnknownName}},
          order \in Orders(builder) :
          LET b == build(builder, base, order) IN
          /\ base_data_name' = base
          /\ result' = b
          /\ dt' = IF b.tag = "Ok" THEN b.val ELSE NoTable
    /\ pc' = "built"
    /\ ret' = NoRet
    /\ UNCHANGED <<src, lines, includes, excludes, emitted, output, first,
                   data_regex, group, builder>>

BuiltGetColByName ==
    /\ pc = "built"
    /\ result.tag = "Ok"
    /\ \E n \in NamePool \cup {UnknownName} :
          ret' = [op |-> "get_col_by_name", arg |-> n, res |-> get_col_by_name(dt, n)]
    /\ UNCHANGED <<pc, src, lines, includes, excludes, emitted, output, first,
                   data_regex, base_data_name, group, builder, dt, result>>

BuiltGetColByNameWithBase ==
    /\ pc = "built"
    /\ result.tag = "Ok"
    /\ \E n \in NamePool \cup {UnknownName} :
          ret' = [op |-> "get_col_by_name_with_base", arg |-> n,
                  res |-> get_col_by_name_with_base(dt, n)]
    /\ UNCHANGED <<pc, src, lines, includes, excludes, emitted, output, first,
                   data_regex, base_data_name, group, builder, dt, result>>

NextBuilder ==
    \/ BuilderNew
    \/ BuilderAddValue
    \/ BuilderBuild
    \/ BuiltGetColByName
    \/ BuiltGetColByNameWithBase

SpecBuilder == InitBuilder /\ [][NextBuilder]_vars

-----------------------------------------------------------------------------
(* The table on its own: a constructor, then add_row and the accessors in   *)
(* any order.  `ret` keeps the table as it was before the call.             *)

\* names: None, or one name per column
TableNames == <<"x", "y", "z", "w">>
NameOptions(columns) == {None, Some(SubSeq(TableNames, 1, columns))}

InitTable ==
    /\ pc = "table_new"
    /\ Idle
    /\ base_data_name = None
    /\ builder = NoBuilder
    /\ dt = NoTable
    /\ result = NoResult
    /\ ret = NoRet

\* DataTable::new.  It takes the base index unchecked and leaves its validity
\* (index < columns) to the caller; the callers modelled here keep it.
TableNew ==
    /\ pc = "table_new"
    /\ \E columns \in 0..MaxCols :
       \E names \in NameOptions(columns),
          base \in {None} \cup {Some(k) : k \in 0..(columns - 1)} :
          dt' = new(columns, names, base)
    /\ pc' = "table"
    /\ UNCHANGED <<src, lines, includes, excludes, emitted, output, first,
                   data_regex, base_data_name, group, builder, result, ret>>

TableNewWithBaseDataIndex ==
    /\ pc = "table_new"
    /\ \E columns \in 0..MaxCols :
       \E names \in NameOptions(columns), index \in 0..MaxCols :
          LET r == new_with_base_data_index(columns, names, index) IN
          IF r.tag = "Ok"
          THEN dt' = r.val /\ pc' = "table" /\ UNCHANGED result
          ELSE result' = r /\ pc' = "table_failed" /\ UNCHANGED dt
    /\ UNCHANGED <<src, lines, includes, excludes, emitted, output, first,
                   data_regex, base_data_name, group, builder, ret>>

TableNewWithBaseDataName ==
    /\ pc = "table_new"
    /\ \E columns \in 0..MaxCols :
       \E name \in {TableNames[1], TableNames[MaxCols], UnknownName} :
          LET r == new_with_base_data_name(columns, SubSeq(TableNames, 1, columns), name) IN
          IF r.tag = "Ok"
          THEN dt' = r.val /\ pc' = "table" /\ UNCHANGED result
          ELSE result' = r /\ pc' = "table_failed" /\ UNCHANGED dt
    /\ UNCHANGED <<src, lines, includes, excludes, emitted, output, first,
                   data_regex, base_data_name, group, builder, ret>>

TableRest == <<pc, src, lines, includes, excludes, emitted, output, first,
               data_regex, base_data_name, group, builder, result>>

\* add_row with a vector of any length
TableAddRow ==
    /\ pc = "table"
    /\ dt.value_rows < MaxRows
    /\ \E data \in SeqsUpTo(ValPool, MaxCols + 1) :
          LET r == add_row(dt, data) IN
          /\ dt' = r.dt
          /\ ret' = [op |-> "add_row", arg |-> data, res |-> r.res, before |-> dt]
    /\ UNCHANGED TableRest

TableGetName ==
    /\ pc = "table"
    /\ \E i \in 0..(MaxRows + 1) :
          ret' = [op |-> "get_name", arg |-> i, res |-> get_name(dt, i), before |-> dt]
    /\ UNCHANGED <<dt, TableRest>>

TableGetCol ==
    /\ pc = "table"
    /\ \E i \in 0..(MaxRows + 1) :
          ret' = [op |-> "get_col", arg |-> i, res |-> get_col(dt, i), before |-> dt]
    /\ UNCHANGED <<dt, TableRest>>

TableGetColWithBase ==
    /\ pc = "table"
    /\ \E i \in 0..(MaxRows + 1) :
          ret' = [op |-> "get_col_with_base", arg |-> i,
                  res |-> get_col_with_base(dt, i), before |-> dt]
    /\ UNCHANGED <<dt, TableRest>>

TableGetRow ==
    /\ pc = "table"
    /\ \E i \in 0..(MaxRows + 1) :
          ret' = [op |-> "get_row", arg |-> i, res |-> get_row(dt, i), before |-> dt]
    /\ UNCHANGED <<dt, TableRest>>

NextTable ==
    \/ TableNew
    \/ TableNewWithBaseDataIndex
    \/ TableNewWithBaseDataName
    \/ TableAddRow
    \/ TableGetName
    \/ TableGetCol
    \/ TableGetColWithBase
    \/ TableGetRow

SpecTable == InitTable /\ [][NextTable]_vars

-----------------------------------------------------------------------------
(* The field extractor on its own: get_numbers applied to one line and an   *)
(* ordered list of named regexes.  src holds the line, data_regex the list. *)

\* "x=1 y=2", "x=3", "y=z" and the empty line
FieldLines == LinePool \cup {<<>>}

\* besides the named regexes of the extraction runs: (\w+) after any key,
\* with a capture group, and a pattern whose evaluation fails
NamedAny == [name |-> "n", regex |-> [k |-> "", g |-> 1, bad |-> FALSE]]
NamedBad == [name |-> "b", regex |-> RgxBad]
FieldRgxPool == NamedRgxPool \cup {NamedAny, NamedBad}

InitFields ==
    /\ pc = "fields"
    /\ \E line \in FieldLines : src = <<Ok(line)>>
    /\ lines = <<>>
    /\ includes = <<>>
    /\ excludes = <<>>
    /\ emitted = <<>>
    /\ output = <<>>
    /\ first = None
    /\ data_regex \in SeqsUpTo(FieldRgxPool, MaxCols)
    /\ base_data_name = None
    /\ group \in BOOLEAN
    /\ builder = NoBuilder
    /\ dt = NoTable
    /\ result = NoResult
    /\ ret = NoRet

FieldsGetNumbers ==
    /\ pc = "fields"
    /\ ret' = [op |-> "get_numbers", arg |-> src[1].val,
               res |-> get_numbers(src[1].val, data_regex, group)]
    /\ pc' = "fields_done"
    /\ UNCHANGED <<src, lines, includes, excludes, emitted, output, first,
                   data_regex, base_data_name, group, builder, dt, result>>

NextFields == FieldsGetNumbers

SpecFields == InitFields /\ [][NextFields]_vars

-----------------------------------------------------------------------------
(* What the specification says of the filter stage *)

Matches(rgx, line) ==
    LET c == captures(rgx, line) IN c.tag = "Ok" /\ c.val # None

KeepLine(line, incl, excl) ==
    /\ incl = <<>> \/ \E i \in DOMAIN incl : Matches(incl[i], line)
    /\ \A j \in DOMAIN excl : ~Matches(excl[j], line)

OkVals(s) ==
    LET t == SelectSeq(s, LAMBDA it : it.tag = "Ok")
    IN [i \in 1..Len(t) |-> t[i].val]

OkOnly(s) == SelectSeq(s, LAMBDA it : it.tag = "Ok")
ErrOnly(s) == SelectSeq(s, LAMBDA it : it.tag = "Err")

KeptLines(s, incl, excl) ==
    LET t == SelectSeq(s, LAMBDA it : it.tag = "Ok" /\ KeepLine(it.val, incl, excl))
    IN [i \in 1..Len(t) |-> t[i].val]

\* the part of the stream the iterator has read
Consumed == SubSeq(src, 1, Len(src) - Len(lines))

InFilter == pc \in {"filter", "refilter", "filtered", "refiltered"}
FilterDone == pc \in {"filtered", "refiltered"}

\* C1: the lines FilterIter emits, and filter returns, are exactly the
\* successfully read lines for which (includes is empty or some include regex
\* matches) and no exclude regex matches, in stream order, once each.
C1_FilterEmitsKeptLines ==
    InFilter =>
        /\ OkVals(emitted) = KeptLines(Consumed, includes, excludes)
        /\ output = KeptLines(Consumed, includes, excludes)
        /\ FilterDone =>
              /\ lines = <<>>
              /\ result = Ok(KeptLines(src, includes, excludes))

C1_Witness ==
    /\ pc = "filtered"
    /\ includes # <<>>
    /\ excludes # <<>>
    /\ Len(result.val) >= 2
    /\ \E i \in DOMAIN src :
          /\ src[i].tag = "Ok"
          /\ \E a \in DOMAIN includes : Matches(includes[a], src[i].val)
          /\ \E b \in DOMAIN excludes : Matches(excludes[b], src[i].val)

\* extract_data's try_for_each, run to its end: [builder, res]
RECURSIVE ExtractTryForEach(_, _, _, _, _, _)
ExtractTryForEach(ls, incl, excl, b, rgxs, grp) ==
    LET r == FilterIterNext(ls, incl, excl) IN
    IF ~IsSome(r.item) THEN [builder |-> b, res |-> Ok("unit")]
    ELSE LET c == ExtractClosure(b, Unwrap(r.item), rgxs, grp) IN
         IF c.res.tag # "Ok" THEN c
         ELSE ExtractTryForEach(r.rest, incl, excl, c.builder, rgxs, grp)

InExtract == pc \in {"extracting", "extracted"}

\* C3: a read error is not fatal.  FilterIter forwards every error element
\* and goes on yielding what follows it; filter returns Ok with the lines it
\* returns when the errored lines are absent from the stream; extract_data
\* never fails with a read failure and ends with the builder it ends with
\* when the errored lines are absent from the stream.
C3_ReadErrorNotFatal ==
    /\ InFilter =>
          /\ ErrOnly(emitted) = ErrOnly(Consumed)
          /\ FilterDone =>
                /\ result.tag = "Ok"
                /\ result = filter(OkOnly(src), includes, excludes)
    /\ InExtract =>
          /\ ErrOnly(emitted) = ErrOnly(Consumed)
          /\ result.tag = "Err" => result.val[1] = "DataTable"
          /\ (pc = "extracted" /\ builder # NoBuilder) =>
                /\ lines = <<>>
                /\ builder = ExtractTryForEach(OkOnly(src), includes, excludes,
                                 builder_new(RegexNames(data_regex)).val,
                                 data_regex, group).builder

C3_Witness ==
    /\ pc = "extracted"
    /\ result.tag = "Ok"
    /\ dt.value_rows >= 2
    /\ \E i \in DOMAIN src :
          /\ src[i].tag = "Err"
          /\ 1 < i /\ i < Len(src)
          /\ src[i - 1].tag = "Ok"
          /\ src[i + 1].tag = "Ok"

\* C9: filter is idempotent: run with the same include and exclude lists
\* over its own output, it returns the same line sequence.
C9_FilterIdempotent ==
    pc = "refiltered" => result = Ok(Unwrap(first).out)

C9_Witness ==
    /\ pc = "refiltered"
    /\ includes # <<>>
    /\ excludes # <<>>
    /\ Len(Unwrap(first).out) >= 2
    /\ Len(Unwrap(first).out) < Len(OkOnly(Unwrap(first).input))

-----------------------------------------------------------------------------
(* What the specification says of extract_data *)

DistinctNames(rgxs) ==
    \A i, j \in DOMAIN rgxs : i # j => rgxs[i].name # rgxs[j].name

BaseNameDeclared ==
    base_data_name = None
    \/ \E i \in DOMAIN data_regex : data_regex[i].name = Unwrap(base_data_name)

Kept == KeptLines(src, includes, excludes)

\* the values regex r extracts from the kept lines, in their order
ExpectedColumn(r) == [k \in 1..Len(Kept) |-> get_number(Kept[k], r.regex, group)]

\* C2: for a non-empty list of data regexes with distinct names (and a base
\* name that is absent or declared), extract_data succeeds, the table has one
\* row per kept line, and the column obtained by the name of regex r holds at
\* row k what r extracts from the k-th kept line, whatever the layout.
C2_ColumnsByName ==
    (pc = "extracted" /\ data_regex # <<>> /\ DistinctNames(data_regex)
        /\ BaseNameDeclared) =>
        /\ result.tag = "Ok"
        /\ dt.value_rows = Len(Kept)
        /\ \A i \in DOMAIN data_regex :
              (ret.op = "get_col_by_name" /\ ret.arg = data_regex[i].name
                  /\ Len(Kept) >= 1) =>
                  ret.res = Ok(ExpectedColumn(data_regex[i]))

NameSet(names) == {names[i] : i \in DOMAIN names}

\* C10 as stated: for every list of data regexes with distinct names,
\* extract_data over a stream with no kept line succeeds with a table of zero
\* rows whose names are the declared names.
C10_EmptyInput_AsStated ==
    (pc = "extracted" /\ DistinctNames(data_regex) /\ Kept = <<>>) =>
        /\ result.tag = "Ok"
        /\ dt.value_rows = 0
        /\ Len(get_names(dt)) = Len(data_regex)
        /\ NameSet(get_names(dt)) = NameSet(RegexNames(data_regex))

\* C10 amended: for every non-empty list of data regexes with distinct names
\* and a base name that is absent or one of the declared names, extract_data
\* over a stream with no kept line succeeds with a table of zero rows whose
\* names are the declared names, each once, in the order the builder chose.
C10_EmptyInput ==
    (pc = "extracted" /\ data_regex # <<>> /\ DistinctNames(data_regex)
        /\ BaseNameDeclared /\ Kept = <<>>) =>
        /\ result.tag = "Ok"
        /\ dt.value_rows = 0
        /\ dt.value_columns = Len(data_regex)
        /\ \A c \in 1..Len(dt.value_data) : dt.value_data[c] = <<>>
        /\ Len(get_names(dt)) = Len(data_regex)
        /\ NameSet(get_names(dt)) = NameSet(RegexNames(data_regex))

C10_Witness ==
    /\ pc = "extracted"
    /\ Len(data_regex) = 2
    /\ DistinctNames(data_regex)
    /\ base_data_name # None
    /\ \E i \in DOMAIN src : src[i].tag = "Ok"
    /\ Kept = <<>>
    /\ result.tag = "Ok"

-----------------------------------------------------------------------------
(* What the specification says of the builder *)

Consistent(b) ==
    /\ DOMAIN b.data # {}
    /\ \A n, m \in DOMAIN b.data : Len(b.data[n]) = Len(b.data[m])

BaseNameKnown(b, base) == base = None \/ Unwrap(base) \in DOMAIN b.data

\* C4 as stated: whatever base_name is, build succeeds iff the builder has at
\* least one column and all buffers have the same length, and otherwise fails
\* with InconsistentBuilderData.
C4_Build_AsStated ==
    pc = "built" =>
        /\ result.tag = "Ok" <=> Consistent(builder)
        /\ result.tag # "Ok" => result = Err("InconsistentBuilderData")

\* C4 amended: build succeeds iff the builder has at least one column, all
\* buffers have the same length and base_name is absent or the name of a
\* column.  It fails with InconsistentBuilderData when there is no column or
\* two lengths differ, and otherwise with InvalidCBaseDataName when base_name
\* names no column.
C4_Build ==
    pc = "built" =>
        /\ result.tag = "Ok" <=>
              (Consistent(builder) /\ BaseNameKnown(builder, base_data_name))
        /\ ~Consistent(builder) => result = Err("InconsistentBuilderData")
        /\ (Consistent(builder) /\ ~BaseNameKnown(builder, base_data_name)) =>
              result = Err("InvalidCBaseDataName")

C4_Witness ==
    /\ pc = "built"
    /\ Cardinality(DOMAIN builder.data) = 2
    /\ \E n, m \in DOMAIN builder.data : Len(builder.data[n]) < Len(builder.data[m])
    /\ BaseNameKnown(builder, base_data_name)
    /\ result = Err("InconsistentBuilderData")

\* C5: on a table built with base_name = b, get_col_by_name_with_base(n)
\* succeeds for every column name n and yields the row_count pairs
\* (column b at row i, column n at row i).
C5_ColWithBaseByName ==
    (pc = "built" /\ result.tag = "Ok" /\ base_data_name # None
        /\ ret.op = "get_col_by_name_with_base"
        /\ ret.arg \in DOMAIN builder.data) =>
        ret.res = Ok([i \in 1..dt.value_rows |->
                        <<builder.data[Unwrap(base_data_name)][i],
                          builder.data[ret.arg][i]>>])

-----------------------------------------------------------------------------
(* What the specification says of the table *)

Accessors == {"get_name", "get_col", "get_col_with_base", "get_row"}

\* C6: get_name(i), get_col(i), get_col_with_base(i) and get_row(i) return a
\* result or a TableError for every index i; none aborts with an
\* out-of-bounds access.
C6_AccessorsNeverAbort ==
    ret.op \in Accessors => ret.res.tag \in {"Ok", "Err"}

\* the base axis of the table: the base column, or the generated one
BaseAxis(t) ==
    IF IsSome(t.base_data_index)
    THEN At(t.value_data, Unwrap(t.base_data_index))
    ELSE t.base_data

\* C7: every value column and the base axis have length row_count.  An
\* add_row whose vector has column_count values adds one to row_count and
\* appends v[i] to column i; one whose vector has another length fails with
\* InvalidColumnCount and leaves the table as it was.
C7_AddRow ==
    /\ pc = "table" =>
          /\ Len(dt.value_data) = dt.value_columns
          /\ \A c \in 1..Len(dt.value_data) : Len(dt.value_data[c]) = dt.value_rows
          /\ Len(BaseAxis(dt)) = dt.value_rows
          /\ Len(dt.base_data) = dt.value_rows
    /\ ret.op = "add_row" =>
          IF Len(ret.arg) = ret.before.value_columns
          THEN /\ ret.res = Ok("unit")
               /\ dt.value_rows = ret.before.value_rows + 1
               /\ \A c \in 1..dt.value_columns :
                     dt.value_data[c] = Append(ret.before.value_data[c], ret.arg[c])
          ELSE /\ ret.res = Err("InvalidColumnCount")
               /\ dt = ret.before

C7_Witness ==
    /\ ret.op = "add_row"
    /\ ret.before.value_rows = 1
    /\ ret.before.value_columns = 2
    /\ Len(ret.arg) # 2
    /\ ret.res.tag = "Err"

C7_WitnessAppended ==
    /\ ret.op = "add_row"
    /\ ret.before.value_rows = 1
    /\ ret.before.value_columns = 2
    /\ dt.value_rows = 2

\* C8: the base axis at row i, as the first value of get_row(i) and as the
\* first component of the i-th pair of get_col_with_base, is i when the table
\* has no base index and columns[k][i] when it has the base index k.
ExpectedBase(t, i) ==
    IF IsSome(t.base_data_index)
    THEN At(At(t.value_data, Unwrap(t.base_data_index)), i)
    ELSE Num(i)

C8_BaseAxis ==
    /\ (ret.op = "get_row" /\ ret.arg < dt.value_rows) =>
          /\ ret.res.tag = "Ok"
          /\ ret.res.val[1] = ExpectedBase(dt, ret.arg)
    /\ (ret.op = "get_col_with_base" /\ ret.res.tag = "Ok") =>
          /\ Len(ret.res.val) = dt.value_rows
          /\ \A i \in 0..(dt.value_rows - 1) :
                At(ret.res.val, i)[1] = ExpectedBase(dt, i)

C8_Witness ==
    /\ ret.op = "get_col_with_base"
    /\ ret.res.tag = "Ok"
    /\ dt.value_rows = 2
    /\ dt.base_data_index = Some(1)
    /\ dt.value_data[1] # dt.value_data[2]

C8_WitnessGenerated ==
    /\ ret.op = "get_row"
    /\ ret.arg = 1
    /\ ret.res.tag = "Ok"
    /\ dt.base_data_index = None
    /\ dt.value_columns = 1

-----------------------------------------------------------------------------
(* What the specification says of the field extractor *)

\* the capture the extractor is asked for: 0, or 1 when group is set
WantedCapture(grp) == IF grp THEN 1 ELSE 0

\* the regex finds a match, the wanted capture exists and its text is a number
Extractable(line, rgx, grp) ==
    /\ Matches(rgx, line)
    /\ WantedCapture(grp) < Len(Unwrap(captures(rgx, line).val))
    /\ parse(Unwrap(captures(rgx, line).val)[WantedCapture(grp) + 1]).tag = "Ok"

\* C11: the field extractor returns one (name, value) pair per regex, in the
\* list's order and with the regex's name.  The value is NaN when the regex
\* finds no match, when the wanted capture is absent (group set and no capture
\* group in the regex) or when the captured text is no number; otherwise it is
\* the number parsed from capture 0 (group unset) or capture 1 (group set).
C11_FieldExtractor ==
    ret.op = "get_numbers" =>
        /\ Len(ret.res) = Len(data_regex)
        /\ \A i \in DOMAIN data_regex :
              /\ Len(ret.res[i]) = 2
              /\ ret.res[i][1] = data_regex[i].name
              /\ IF Extractable(ret.arg, data_regex[i].regex, group)
                 THEN ret.res[i][2] =
                        parse(Unwrap(captures(data_regex[i].regex, ret.arg).val)
                                  [WantedCapture(group) + 1]).val
                 ELSE ret.res[i][2] = NaN

\* group set: a regex without a capture group that matches gives NaN, next to
\* a regex whose first group gives a number
C11_Witness ==
    /\ ret.op = "get_numbers"
    /\ group
    /\ Len(data_regex) = 2
    /\ data_regex[1].regex.g = 0
    /\ Matches(data_regex[1].regex, ret.arg)
    /\ ret.res[1] = <<data_regex[1].name, NaN>>
    /\ ret.res[2] = <<data_regex[2].name, Num(1)>>

\* group unset: the whole match of one regex is a number, that of another is not
C11_WitnessWholeMatch ==
    /\ ret.op = "get_numbers"
    /\ ~group
    /\ Len(data_regex) = 2
    /\ ret.res[1][2] = Num(3)
    /\ Matches(data_regex[2].regex, ret.arg)
    /\ ret.res[2][2] = NaN

====
